---- MODULE Spec2Model ----
(***************************************************************************)
(* Authentication subsystem of the FastAPI calculator backend:             *)
(*   app/auth/security.py      password hashing, JWT create / decode       *)
(*   app/auth/dependencies.py  authenticate_user, verify_access_token,     *)
(*                             get_current_user                            *)
(*   app/routers/auth.py       POST /auth/register, POST /auth/login,      *)
(*                             GET /auth/me                                *)
(*   app/core/config.py        Settings, reload_settings                   *)
(*   app/factory/calculation_factory.py  operation handlers and factory    *)
(* The account store is the users table (app/models/user_model.py).        *)
(* Time is counted in ticks, TicksPerSecond of them to a second, because   *)
(* a JWT carries its expiry in whole seconds while the clock is finer.     *)
(***************************************************************************)
EXTENDS Integers, Sequences, FiniteSets, TLC

VARIABLES
    users,       \* rows of the users table, in insertion order
    now,         \* the clock (datetime.utcnow()), in ticks
    settings,    \* app.core.config.settings, the reloadable configuration
    SECRET_KEY,  \* app.auth.security.SECRET_KEY, read from settings at import
    held,        \* the token the client holds from the last issuance, if any
    resp,        \* outcome of the last operation, as its caller sees it
    inflight,    \* POST /auth/register requests being handled, and where each is
    sessions     \* get_db generators and the session each handed out

vars == <<users, now, settings, SECRET_KEY, held, resp, inflight, sessions>>

----------------------------------------------------------------------------
(* Bounds of the model.                                                    *)

MaxUsers == 2
\* the clock is sampled at the first MaxOffset ticks of each token lifetime
MaxOffset == 2
MaxPeriods == 1
TicksPerSecond == 2
MaxSubLen == 1
\* registration requests handled at the same time
MaxRequests == 2
\* get_db generators alive at the same time
MaxSessions == 3

----------------------------------------------------------------------------
(* Configuration (app/core/config.py).                                     *)

ACCESS_TOKEN_EXPIRE_MINUTES == 30
ALGORITHM == "HS256"
DefaultSecret == "super_secret_key_123"
\* values the SECRET_KEY environment variable can take
Secrets == {DefaultSecret, "rotated_secret"}

\* Settings(): the configuration object built from the environment
Settings(secret) == [SECRET_KEY |-> secret]

DefaultTtl == ACCESS_TOKEN_EXPIRE_MINUTES * 60 * TicksPerSecond

TimePoints ==
    {p * DefaultTtl + j : p \in 0..MaxPeriods, j \in 0..MaxOffset}

----------------------------------------------------------------------------
(* Optional values: Python's None is the empty set, a value x is {x}.      *)

None == {}
Some(x) == {x}
The(s) == CHOOSE x \in s : TRUE

Range(f) == {f[i] : i \in DOMAIN f}

----------------------------------------------------------------------------
(* Strings that the code converts: str(user.id) and int(sub).  A string    *)
(* is a sequence of one-character strings.                                 *)

DigitChars == <<"0", "1", "2", "3", "4", "5", "6", "7", "8", "9">>

DigitVal(c) == (CHOOSE i \in DOMAIN DigitChars : DigitChars[i] = c) - 1

IsDecimal(s) == Len(s) > 0 /\ \A i \in DOMAIN s : s[i] \in Range(DigitChars)

RECURSIVE IntOf(_)
\* int(s) for a string of decimal digits (leading zeros are accepted)
IntOf(s) ==
    IF Len(s) = 0 THEN 0
    ELSE 10 * IntOf(SubSeq(s, 1, Len(s) - 1)) + DigitVal(s[Len(s)])

RECURSIVE StrOf(_)
\* str(n) for n >= 0
StrOf(n) ==
    IF n < 10 THEN <<DigitChars[n + 1]>>
    ELSE StrOf(n \div 10) \o <<DigitChars[(n % 10) + 1]>>

\* characters a presented subject is built from
SubChars == {"0", "1", "2", "a"}

SubStrings == UNION {[1..n -> SubChars] : n \in 0..MaxSubLen}

----------------------------------------------------------------------------
(* Credential hasher (app/auth/security.py).  bcrypt is one-way: a digest  *)
(* is a structure of its own, never the plaintext.                         *)

\* Python values given to the hasher: a str is its characters; a str that
\* bcrypt produced carries, instead of readable characters, the secret its
\* checksum was computed from (the salt is left out of the model)
Str(chars) == [type |-> "str", chars |-> chars, bcrypt |-> None]
PyNone == [type |-> "NoneType", chars |-> <<>>, bcrypt |-> None]
PyInt == [type |-> "int", chars |-> <<>>, bcrypt |-> None]
BcryptHash(secret) == [type |-> "str", chars |-> <<>>, bcrypt |-> Some(secret)]

\* characters str.strip() removes
WhiteSpace == {" ", "\t"}

RECURSIVE LStrip(_)
LStrip(s) ==
    IF s # <<>> /\ Head(s) \in WhiteSpace THEN LStrip(Tail(s)) ELSE s

RECURSIVE RStrip(_)
RStrip(s) ==
    IF s # <<>> /\ s[Len(s)] \in WhiteSpace
    THEN RStrip(SubSeq(s, 1, Len(s) - 1))
    ELSE s

\* s.strip()
Strip(s) == RStrip(LStrip(s))

\* bcrypt reads the first 72 bytes of a secret and refuses a NUL byte
BcryptMaxBytes == 72
NUL == "NUL"

Truncate(chars) ==
    IF Len(chars) > BcryptMaxBytes THEN SubSeq(chars, 1, BcryptMaxBytes) ELSE chars

\* pwd_context.hash(secret) for a str: the digest, or the exception class
PwdContextHash(chars) ==
    IF NUL \in Range(chars)
    THEN [raised |-> "PasswordValueError", digest |-> None]
    ELSE [raised |-> "none", digest |-> Some(BcryptHash(Truncate(chars)))]

\* pwd_context.verify(secret, hash) for two strs
PwdContextVerify(chars, hashed) ==
    IF hashed.bcrypt = None
    THEN [raised |-> "UnknownHashError", result |-> FALSE]
    ELSE IF NUL \in Range(chars)
    THEN [raised |-> "PasswordValueError", result |-> FALSE]
    ELSE [raised |-> "none", result |-> The(hashed.bcrypt) = Truncate(chars)]

HashReturn(digest) == [raised |-> "none", msg |-> "", digest |-> Some(digest)]
HashRaise(exc, msg) == [raised |-> exc, msg |-> msg, digest |-> None]

\* hash_password testing "not password" instead of "not password.strip()"
hash_password_no_strip(password) ==
    IF password.type # "str" \/ password.chars = <<>>
    THEN HashRaise("ValueError", "Password must be a non-empty string")
    ELSE LET h == PwdContextHash(password.chars) IN
         IF h.raised # "none"
         THEN HashRaise("RuntimeError", "Password hashing failed")
         ELSE HashReturn(The(h.digest))

\* hash_password(password)
hash_password(password) ==
    IF password.type # "str" \/ Strip(password.chars) = <<>>
    THEN HashRaise("ValueError", "Password must be a non-empty string")
    ELSE LET h == PwdContextHash(password.chars) IN
         IF h.raised # "none"
         THEN HashRaise("RuntimeError", "Password hashing failed")
         ELSE HashReturn(The(h.digest))

VerifyReturn(result) == [raised |-> "none", result |-> result]

\* verify_password without its try / except
verify_password_no_handler(plain, hashed) ==
    IF plain.type # "str" \/ hashed.type # "str"
    THEN VerifyReturn(FALSE)
    ELSE LET v == PwdContextVerify(plain.chars, hashed) IN
         [raised |-> v.raised, result |-> v.result]

\* verify_password(plain, hashed)
verify_password(plain, hashed) ==
    IF plain.type # "str" \/ hashed.type # "str"
    THEN VerifyReturn(FALSE)
    ELSE LET v == PwdContextVerify(plain.chars, hashed) IN
         IF v.raised # "none"
         THEN VerifyReturn(FALSE)
         ELSE VerifyReturn(v.result)

\* passwords that pass PasswordMixin
Secret123 == Str(<<"S", "e", "c", "r", "e", "t", "1", "2", "3">>)
Other456 == Str(<<"O", "t", "h", "e", "r", "4", "5", "6">>)
Passwords == {Secret123, Other456}

----------------------------------------------------------------------------
(* Token codec (app/auth/security.py over PyJWT).                          *)
(* A token is header.payload.signature.  The HS256 signature is a MAC of   *)
(* header and payload under a key; bytes appended to the token land in     *)
(* the signature segment.                                                  *)

Payload(has_sub, sub, exp) == [has_sub |-> has_sub, sub |-> sub, exp |-> exp]

NoPayload == Payload(FALSE, <<>>, 0)

Sign(alg, payload, key) ==
    [alg |-> alg, payload |-> payload, key |-> key, tail |-> ""]

NoSig == Sign("", NoPayload, "")

\* jwt.encode(payload, key, algorithm=alg)
JwtEncode(payload, key, alg) ==
    [kind |-> "jwt", alg |-> alg, payload |-> payload,
     sig |-> Sign(alg, payload, key)]

\* the empty string, and a string that is no three-part JWT
EmptyToken == [kind |-> "empty", alg |-> "", payload |-> NoPayload, sig |-> NoSig]
MalformedToken ==
    [kind |-> "malformed", alg |-> "", payload |-> NoPayload, sig |-> NoSig]

\* token + "abc123"
Tamper(token) == [token EXCEPT !.sig.tail = "abc123"]

\* the payload replaced under an unchanged signature
SwapSub(token, sub) ==
    [token EXCEPT !.payload = Payload(TRUE, sub, token.payload.exp)]

\* an unsigned token announcing alg "none"
Unsigned(payload) ==
    [kind |-> "jwt", alg |-> "none", payload |-> payload,
     sig |-> Sign("none", payload, "")]

\* datetime -> NumericDate: PyJWT keeps whole seconds (timegm(utctimetuple))
ExpOf(t) == t \div TicksPerSecond

\* expires_delta or timedelta(minutes=ACCESS_TOKEN_EXPIRE_MINUTES):
\* None and a zero timedelta are both falsy
EffectiveTtl(expires_delta) ==
    IF expires_delta = None \/ expires_delta = Some(0)
    THEN DefaultTtl
    ELSE The(expires_delta)

CreateOk(token) == [raised |-> "none", msg |-> "", token |-> Some(token)]
CreateRaise(exc, msg) == [raised |-> exc, msg |-> msg, token |-> None]

\* create_access_token without its try / except
create_access_token_no_handler(data, expires_delta, key, t, fault) ==
    IF fault THEN CreateRaise("Exception", "encode failed")
    ELSE CreateOk(JwtEncode(Payload(data.has_sub, data.sub,
                                    ExpOf(t + EffectiveTtl(expires_delta))),
                            key, ALGORITHM))

\* create_access_token supplying a subject when the mapping has none
create_access_token_default_sub(data, expires_delta, key, t, fault) ==
    IF fault THEN CreateRaise("RuntimeError", "JWT creation failed")
    ELSE CreateOk(JwtEncode(Payload(TRUE, IF data.has_sub THEN data.sub ELSE <<"0">>,
                                    ExpOf(t + EffectiveTtl(expires_delta))),
                            key, ALGORITHM))

\* create_access_token(data, expires_delta) called at time t;
\* data is the claims mapping, of which the model keeps the subject;
\* fault: jwt.encode raised
create_access_token(data, expires_delta, key, t, fault) ==
    IF fault THEN CreateRaise("RuntimeError", "JWT creation failed")
    ELSE CreateOk(JwtEncode(Payload(data.has_sub, data.sub,
                                    ExpOf(t + EffectiveTtl(expires_delta))),
                            key, ALGORITHM))

\* jwt.decode(token, key, algorithms=algs) at time t: the exception class
\* it raises ("none" when it returns the payload)
JwtDecode(token, key, algs, t) ==
    IF token.kind # "jwt" THEN "DecodeError"
    ELSE IF token.alg \notin algs THEN "InvalidAlgorithmError"
    ELSE IF token.sig # Sign(token.alg, token.payload, key)
         THEN "InvalidSignatureError"
    ELSE IF token.payload.exp * TicksPerSecond <= t
         THEN "ExpiredSignatureError"
    ELSE "none"

\* subclasses of jwt.InvalidTokenError other than ExpiredSignatureError
InvalidTokenErrors ==
    {"DecodeError", "InvalidAlgorithmError", "InvalidSignatureError"}

DecodeOk(payload) == [raised |-> "none", msg |-> "", payload |-> payload]
DecodeRaise(msg) == [raised |-> "RuntimeError", msg |-> msg, payload |-> NoPayload]

\* decode_access_token with expiry verification switched off
decode_access_token_no_exp(token, key, t, fault) ==
    IF fault THEN DecodeRaise("Token decode failure")
    ELSE LET exc == JwtDecode(token, key, {ALGORITHM}, t) IN
         IF exc \in InvalidTokenErrors THEN DecodeRaise("Invalid or expired token")
         ELSE DecodeOk(token.payload)

\* decode_access_token telling an invalid token from an expired one
decode_access_token_telling(token, key, t, fault) ==
    IF fault THEN DecodeRaise("Token decode failure")
    ELSE LET exc == JwtDecode(token, key, {ALGORITHM}, t) IN
         IF exc = "ExpiredSignatureError" THEN DecodeRaise("Invalid or expired token")
         ELSE IF exc \in InvalidTokenErrors THEN DecodeRaise("Invalid token")
         ELSE DecodeOk(token.payload)

\* decode_access_token with a single handler for every exception
decode_access_token_one_handler(token, key, t, fault) ==
    IF fault THEN DecodeRaise("Invalid or expired token")
    ELSE LET exc == JwtDecode(token, key, {ALGORITHM}, t) IN
         IF exc = "ExpiredSignatureError" THEN DecodeRaise("Invalid or expired token")
         ELSE IF exc \in InvalidTokenErrors THEN DecodeRaise("Invalid or expired token")
         ELSE DecodeOk(token.payload)

\* decode_access_token(token) at time t; fault: jwt.decode raised an
\* exception that is no jwt.InvalidTokenError
decode_access_token(token, key, t, fault) ==
    IF fault THEN DecodeRaise("Token decode failure")
    ELSE LET exc == JwtDecode(token, key, {ALGORITHM}, t) IN
         IF exc = "ExpiredSignatureError" THEN DecodeRaise("Invalid or expired token")
         ELSE IF exc \in InvalidTokenErrors THEN DecodeRaise("Invalid or expired token")
         ELSE DecodeOk(token.payload)

----------------------------------------------------------------------------
(* Account store: the users table (app/models/user_model.py).              *)

\* usernames are any string of 3..50 characters, so a username may have
\* the form of an e-mail address; e-mail addresses pass EmailStr
Usernames == {"alice", "a@x.com"}
Emails == {"a@x.com", "b@x.com"}

\* User(username=, email=, password_hash=) once committed: the id is the
\* autoincremented primary key, is_active takes its column default
User(id, username, email, password_hash) ==
    [id |-> id, username |-> username, email |-> email,
     password_hash |-> password_hash, is_active |-> TRUE]

\* db.query(User).filter(User.id == id): the matching rows
QueryById(rows, id) == {rows[i] : i \in {j \in DOMAIN rows : rows[j].id = id}}

\* db.query(User).filter(User.username == name)
QueryByUsername(rows, name) ==
    {rows[i] : i \in {j \in DOMAIN rows : rows[j].username = name}}

\* db.query(User).filter(User.email == email)
QueryByEmail(rows, email) ==
    {rows[i] : i \in {j \in DOMAIN rows : rows[j].email = email}}

\* db.query(User).filter((User.username == x) | (User.email == x))
QueryByIdentifier(rows, x) ==
    {rows[i] : i \in {j \in DOMAIN rows :
                        rows[j].username = x \/ rows[j].email = x}}

----------------------------------------------------------------------------
(* Session guard (app/auth/dependencies.py).                               *)

\* what a guard call did and how it ended
GuardReturn(user, payload, lookups) ==
    [kind |-> "return", status |-> 200, detail |-> "", user |-> user,
     payload |-> payload, decoded |-> TRUE, lookups |-> lookups]

\* raise HTTPException(status_code=401, detail=detail)
Unauthorized(detail, decoded, lookups) ==
    [kind |-> "HTTPException", status |-> 401, detail |-> detail, user |-> None,
     payload |-> NoPayload, decoded |-> decoded, lookups |-> lookups]

\* an exception the function does not catch
Escapes(exc, decoded, lookups) ==
    [kind |-> exc, status |-> 500, detail |-> "", user |-> None,
     payload |-> NoPayload, decoded |-> decoded, lookups |-> lookups]

\* verify_access_token(token)
verify_access_token(token, key, t, fault) ==
    LET d == decode_access_token(token, key, t, fault) IN
    IF d.raised = "RuntimeError"
    THEN Unauthorized("Invalid or expired token", TRUE, 0)
    ELSE GuardReturn(None, d.payload, 0)

\* not sub: the claim is absent (None) or the empty string
SubFalsy(payload) == ~payload.has_sub \/ payload.sub = <<>>

\* get_current_user with the lookup's filter on the id left out
get_current_user_any_row(token, rows, key, t, fault) ==
    IF token.kind = "empty"
    THEN Unauthorized("Invalid or expired token", FALSE, 0)
    ELSE LET d == decode_access_token(token, key, t, fault) IN
         IF d.raised = "RuntimeError"
         THEN Unauthorized("Invalid or expired token", TRUE, 0)
         ELSE IF SubFalsy(d.payload)
         THEN Unauthorized("Missing user id in token", TRUE, 0)
         ELSE IF ~IsDecimal(d.payload.sub)
         THEN Escapes("ValueError", TRUE, 0)
         ELSE LET found == Range(rows) IN
              IF found = {}
              THEN Unauthorized("User not found", TRUE, 1)
              ELSE GuardReturn(Some(rows[1]), d.payload, 1)

\* get_current_user looking the account up before it decodes, and going
\* on with the presented claims when decoding fails
get_current_user_no_raise(token, rows, key, t, fault) ==
    IF token.kind = "empty"
    THEN Unauthorized("Invalid or expired token", FALSE, 0)
    ELSE LET d == decode_access_token(token, key, t, fault)
             payload == token.payload IN
         IF SubFalsy(payload)
         THEN Unauthorized("Missing user id in token", TRUE, 0)
         ELSE IF ~IsDecimal(payload.sub)
         THEN Escapes("ValueError", TRUE, 0)
         ELSE LET found == QueryById(rows, IntOf(payload.sub)) IN
              IF found = {}
              THEN Unauthorized("User not found", TRUE, 1)
              ELSE IF d.raised = "RuntimeError"
              THEN Unauthorized("Invalid or expired token", TRUE, 1)
              ELSE GuardReturn(Some(The(found)), payload, 1)

\* get_current_user testing the subject with "is None" instead of "not"
get_current_user_is_none(token, rows, key, t, fault) ==
    IF token.kind = "empty"
    THEN Unauthorized("Invalid or expired token", FALSE, 0)
    ELSE LET d == decode_access_token(token, key, t, fault) IN
         IF d.raised = "RuntimeError"
         THEN Unauthorized("Invalid or expired token", TRUE, 0)
         ELSE IF ~d.payload.has_sub
         THEN Unauthorized("Missing user id in token", TRUE, 0)
         ELSE IF ~IsDecimal(d.payload.sub)
         THEN Escapes("ValueError", TRUE, 0)
         ELSE LET found == QueryById(rows, IntOf(d.payload.sub)) IN
              IF found = {}
              THEN Unauthorized("User not found", TRUE, 1)
              ELSE GuardReturn(Some(The(found)), d.payload, 1)

\* get_current_user(token, db)
get_current_user(token, rows, key, t, fault) ==
    IF token.kind = "empty"
    THEN Unauthorized("Invalid or expired token", FALSE, 0)
    ELSE LET d == decode_access_token(token, key, t, fault) IN
         IF d.raised = "RuntimeError"
         THEN Unauthorized("Invalid or expired token", TRUE, 0)
         ELSE IF SubFalsy(d.payload)
         THEN Unauthorized("Missing user id in token", TRUE, 0)
         ELSE IF ~IsDecimal(d.payload.sub)
         THEN Escapes("ValueError", TRUE, 0)
         ELSE LET found == QueryById(rows, IntOf(d.payload.sub)) IN
              IF found = {}
              THEN Unauthorized("User not found", TRUE, 1)
              ELSE GuardReturn(Some(The(found)), d.payload, 1)

\* the call as its caller sees it
Call(op, token, fault, outcome) ==
    [op |-> op, token |-> token, fault |-> fault, out |-> outcome]

----------------------------------------------------------------------------
(* Authenticator and the /auth routes.                                     *)

\* authenticate_user(db, identifier, password); first is what .first()
\* gave: None, or one of the matching rows (the query has no ORDER BY, so
\* which of several matching rows comes first is the store's choice)
authenticate_user(first, password) ==
    IF first = None THEN None
    ELSE IF ~verify_password(password, The(first).password_hash).result THEN None
    ELSE first

\* User.to_read_schema(): the fields of UserResponse the model keeps
to_read_schema(user) ==
    [id |-> user.id, username |-> user.username, email |-> user.email,
     is_active |-> user.is_active]

RouteReturn(user, token) ==
    [kind |-> "return", status |-> 200, detail |-> "", user |-> user,
     token |-> token]

\* raise HTTPException(status, detail) in a route
RouteRaise(status, detail) ==
    [kind |-> "HTTPException", status |-> status, detail |-> detail,
     user |-> None, token |-> None]

\* register_user without the query on the e-mail address
register_user_no_email_query(rows, username, email, password) ==
    IF QueryByUsername(rows, username) # {}
    THEN [rows |-> rows, out |-> RouteRaise(400, "Username already exists")]
    ELSE LET h == hash_password(password) IN
         IF h.raised # "none"
         THEN [rows |-> rows, out |-> RouteRaise(500, "Internal Server Error")]
         ELSE LET user == User(Len(rows) + 1, username, email, The(h.digest))
              IN [rows |-> Append(rows, user),
                  out |-> RouteReturn(Some(to_read_schema(user)), None)]

\* register_user(payload, db): the rows afterwards and the response
register_user(rows, username, email, password) ==
    IF QueryByUsername(rows, username) # {}
    THEN [rows |-> rows, out |-> RouteRaise(400, "Username already exists")]
    ELSE IF QueryByEmail(rows, email) # {}
    THEN [rows |-> rows, out |-> RouteRaise(400, "Email already registered")]
    ELSE LET h == hash_password(password) IN
         IF h.raised # "none"
         THEN [rows |-> rows, out |-> RouteRaise(500, "Internal Server Error")]
         ELSE LET user == User(Len(rows) + 1, username, email, The(h.digest))
              IN [rows |-> Append(rows, user),
                  out |-> RouteReturn(Some(to_read_schema(user)), None)]

\* an exception the route does not catch
RouteEscapes(exc) ==
    [kind |-> exc, status |-> 500, detail |-> "", user |-> None, token |-> None]

\* db.add(user); db.commit() under the table's unique constraints on
\* username and email: the rows afterwards, or IntegrityError
db_commit(rows, user) ==
    IF QueryByUsername(rows, user.username) # {} \/ QueryByEmail(rows, user.email) # {}
    THEN [raised |-> "IntegrityError", rows |-> rows]
    ELSE [raised |-> "none", rows |-> Append(rows, user)]

\* login with an answer of its own for an identifier no account has
login_unknown_user(first, password, key, t) ==
    IF first = None
    THEN RouteRaise(404, "User not found")
    ELSE IF ~verify_password(password, The(first).password_hash).result
    THEN RouteRaise(401, "Invalid username or password")
    ELSE RouteReturn(None,
            create_access_token(
                [has_sub |-> TRUE, sub |-> StrOf(The(first).id)],
                None, key, t, FALSE).token)

\* login(credentials, db), with first as in authenticate_user
login(first, password, key, t) ==
    IF first = None \/ ~verify_password(password, The(first).password_hash).result
    THEN RouteRaise(401, "Invalid username or password")
    ELSE RouteReturn(None,
            create_access_token(
                [has_sub |-> TRUE, sub |-> StrOf(The(first).id)],
                None, key, t, FALSE).token)

\* me(current_user): the route behind the session guard
me(token, rows, key, t) ==
    LET g == get_current_user(token, rows, key, t, FALSE) IN
    IF g.kind = "return"
    THEN [g EXCEPT !.user = Some(to_read_schema(The(g.user)))]
    ELSE g

----------------------------------------------------------------------------
(* Operation dispatcher (app/factory/calculation_factory.py).  A name is   *)
(* a sequence of characters; a number is a fraction in lowest terms, so    *)
(* that a quotient is kept exactly.                                        *)

Lowers == <<"a", "b", "c", "d", "e", "f", "g", "h", "i", "j", "k", "l", "m", "n", "o", "p", "q", "r", "s", "t", "u", "v", "w", "x", "y", "z">>
Uppers == <<"A", "B", "C", "D", "E", "F", "G", "H", "I", "J", "K", "L", "M", "N", "O", "P", "Q", "R", "S", "T", "U", "V", "W", "X", "Y", "Z">>

LowerChar(c) ==
    IF c \in Range(Uppers)
    THEN Lowers[CHOOSE i \in DOMAIN Uppers : Uppers[i] = c]
    ELSE c

UpperChar(c) ==
    IF c \in Range(Lowers)
    THEN Uppers[CHOOSE i \in DOMAIN Lowers : Lowers[i] = c]
    ELSE c

\* s.lower() and s.upper()
Lower(s) == [i \in DOMAIN s |-> LowerChar(s[i])]
Upper(s) == [i \in DOMAIN s |-> UpperChar(s[i])]

Abs(n) == IF n < 0 THEN 0 - n ELSE n

RECURSIVE Gcd(_, _)
Gcd(m, n) == IF n = 0 THEN m ELSE Gcd(n, m % n)

\* the number num / den (den # 0), in lowest terms with den > 0
Rat(num, den) ==
    LET g == Gcd(Abs(num), Abs(den))
        sign == IF den < 0 THEN 0 - 1 ELSE 1
    IN [num |-> sign * (num \div g), den |-> sign * (den \div g)]

ComputeReturn(value) == [raised |-> "none", msg |-> "", value |-> Some(value)]
ComputeRaise(exc, msg) == [raised |-> exc, msg |-> msg, value |-> None]

\* AddOperation.compute(a, b)
AddOperation_compute(a, b) ==
    ComputeReturn(Rat(a.num * b.den + b.num * a.den, a.den * b.den))

\* SubtractOperation.compute(a, b)
SubtractOperation_compute(a, b) ==
    ComputeReturn(Rat(a.num * b.den - b.num * a.den, a.den * b.den))

\* MultiplyOperation.compute(a, b)
MultiplyOperation_compute(a, b) ==
    ComputeReturn(Rat(a.num * b.num, a.den * b.den))

\* DivideOperation.compute with floor division (a // b)
DivideOperation_compute_floor(a, b) ==
    IF b.num = 0
    THEN ComputeRaise("ValueError", "Division by zero")
    ELSE LET q == Rat(a.num * b.den, a.den * b.num)
         IN ComputeReturn(Rat(q.num \div q.den, 1))

\* DivideOperation.compute(a, b)
DivideOperation_compute(a, b) ==
    IF b.num = 0
    THEN ComputeRaise("ValueError", "Division by zero")
    ELSE ComputeReturn(Rat(a.num * b.den, a.den * b.num))

\* operation.compute(a, b) on an instance of the class named handler
compute(handler, a, b) ==
    CASE handler = "AddOperation" -> AddOperation_compute(a, b)
      [] handler = "SubtractOperation" -> SubtractOperation_compute(a, b)
      [] handler = "MultiplyOperation" -> MultiplyOperation_compute(a, b)
      [] handler = "DivideOperation" -> DivideOperation_compute(a, b)

\* CalculationFactory.OPERATIONS
OPERATIONS ==
    <<"a", "d", "d">> :> "AddOperation" @@
    <<"a", "d", "d", "i", "t", "i", "o", "n">> :> "AddOperation" @@
    <<"p", "l", "u", "s">> :> "AddOperation" @@
    <<"s", "u", "b", "t", "r", "a", "c", "t">> :> "SubtractOperation" @@
    <<"s", "u", "b">> :> "SubtractOperation" @@
    <<"m", "i", "n", "u", "s">> :> "SubtractOperation" @@
    <<"s", "u", "b", "t", "r", "a", "c", "t", "i", "o", "n">> :> "SubtractOperation" @@
    <<"m", "u", "l", "t", "i", "p", "l", "y">> :> "MultiplyOperation" @@
    <<"m", "u", "l">> :> "MultiplyOperation" @@
    <<"t", "i", "m", "e", "s">> :> "MultiplyOperation" @@
    <<"m", "u", "l", "t", "i", "p", "l", "i", "c", "a", "t", "i", "o", "n">> :> "MultiplyOperation" @@
    <<"d", "i", "v", "i", "d", "e">> :> "DivideOperation" @@
    <<"d", "i", "v">> :> "DivideOperation" @@
    <<"d", "i", "v", "i", "s", "i", "o", "n">> :> "DivideOperation"

CreateReturn(handler) == [raised |-> "none", msg |-> "", handler |-> Some(handler)]
CreateFail(exc, msg) == [raised |-> exc, msg |-> msg, handler |-> None]

\* CalculationFactory.create looking up op_type.lower(), not stripped
CalculationFactory_create_no_strip(op_type) ==
    LET key == Lower(op_type) IN
    IF key \notin DOMAIN OPERATIONS
    THEN CreateFail("ValueError", "Unsupported calculation type")
    ELSE CreateReturn(OPERATIONS[key])

\* CalculationFactory.create(op_type)
CalculationFactory_create(op_type) ==
    LET key == Lower(Strip(op_type)) IN
    IF key \notin DOMAIN OPERATIONS
    THEN CreateFail("ValueError", "Unsupported calculation type")
    ELSE CreateReturn(OPERATIONS[key])

CalcResponse(status, detail, result) ==
    [status |-> status, detail |-> detail, result |-> result]

\* compute_calculation answering every ValueError with one fixed detail
compute_calculation_fixed_detail(type, a, b) ==
    LET c == CalculationFactory_create(type) IN
    IF c.raised = "ValueError"
    THEN CalcResponse(400, "Invalid calculation", None)
    ELSE LET r == compute(The(c.handler), a, b) IN
         IF r.raised = "ValueError"
         THEN CalcResponse(400, "Invalid calculation", None)
         ELSE CalcResponse(200, "", r.value)

\* compute_calculation(payload): POST /calc/compute (app/routers/calc.py)
compute_calculation(type, a, b) ==
    LET c == CalculationFactory_create(type) IN
    IF c.raised = "ValueError"
    THEN CalcResponse(400, c.msg, None)
    ELSE LET r == compute(The(c.handler), a, b) IN
         IF r.raised = "ValueError"
         THEN CalcResponse(400, r.msg, None)
         ELSE CalcResponse(200, "", r.value)

----------------------------------------------------------------------------
(* Inputs of the model.                                                    *)

\* what .first() can give for a set of matching rows
FirstOf(rows) == IF rows = {} THEN {None} ELSE {Some(r) : r \in rows}

\* identifiers a client logs in with
Identifiers == Usernames \cup Emails

\* expiries (in seconds) of presented tokens: the first second, and the
\* second after a default lifetime
ExpSamples == {1, ExpOf(DefaultTtl) + 1}

\* claims mappings: {} and {"sub": s}
ClaimsSamples ==
    {[has_sub |-> FALSE, sub |-> <<>>]}
        \cup {[has_sub |-> TRUE, sub |-> s] : s \in SubStrings}

PayloadSamples ==
    {Payload(c.has_sub, c.sub, e) : c \in ClaimsSamples, e \in ExpSamples}

\* claims mappings given to create_access_token: no subject, an empty
\* one, an account id and a username
IssuedClaims ==
    {[has_sub |-> FALSE, sub |-> <<>>], [has_sub |-> TRUE, sub |-> <<>>],
     [has_sub |-> TRUE, sub |-> StrOf(1)], [has_sub |-> TRUE, sub |-> <<"a">>]}

\* expires_delta: absent, -1 second, zero, one tick, one second
TtlSamples ==
    {None, Some(0 - TicksPerSecond), Some(0), Some(1), Some(TicksPerSecond)}

\* tokens presented to the session guard: none, garbage, tokens signed
\* under each secret, and those with the signature segment extended, the
\* subject replaced, or the signature dropped
PresentedTokens ==
    {EmptyToken, MalformedToken}
        \cup {JwtEncode(p, k, ALGORITHM) : p \in PayloadSamples, k \in Secrets}
        \cup {Tamper(JwtEncode(p, DefaultSecret, ALGORITHM)) : p \in PayloadSamples}
        \cup {SwapSub(JwtEncode(p, DefaultSecret, ALGORITHM), StrOf(i)) :
                p \in PayloadSamples, i \in 1..MaxUsers}
        \cup {Unsigned(p) : p \in PayloadSamples}

\* calls of the guard: every presented token with a working decoder, and
\* a decoder that breaks on no token, on garbage and on account 1's tokens
GuardCalls ==
    {<<token, FALSE>> : token \in PresentedTokens}
        \cup {<<token, TRUE>> :
                token \in {EmptyToken, MalformedToken}
                    \cup {JwtEncode(Payload(TRUE, StrOf(1), e), DefaultSecret, ALGORITHM) :
                            e \in ExpSamples}}

\* what is known of the token the client holds: how it was asked for and,
\* for a login, the id of the account that login authenticated
Held(token, ttl, identifier, password, account) ==
    [token |-> token, ttl |-> ttl, at |-> now, identifier |-> identifier,
     password |-> password, account |-> account]

\* tokens a client holding a token can present to the codec
DerivedTokens ==
    {EmptyToken, MalformedToken}
        \cup UNION {{h.token, Tamper(h.token), Unsigned(h.token.payload)}
                      \cup {JwtEncode(h.token.payload, k, ALGORITHM) : k \in Secrets}
                    : h \in held}

----------------------------------------------------------------------------
(* The state machine.                                                      *)

Idle == [op |-> "idle"]

\* a request slot with no request in it
NoRequest ==
    [pc |-> "none", username |-> "", email |-> "", password |-> PyNone,
     out |-> RouteRaise(0, "")]

\* a get_db generator that was not started
NoSession == [state |-> "none", closed |-> FALSE, close_calls |-> 0]

Init ==
    /\ users = <<>>
    /\ now = 0
    /\ settings = Settings(DefaultSecret)
    /\ SECRET_KEY = settings.SECRET_KEY
    /\ held = None
    /\ resp = Idle
    /\ inflight = [r \in 1..MaxRequests |-> NoRequest]
    /\ sessions = [g \in 1..MaxSessions |-> NoSession]

\* the clock moves forward
Tick ==
    /\ \E t \in TimePoints : t > now /\ now' = t
    /\ resp' = Idle
    /\ UNCHANGED <<users, settings, SECRET_KEY, held, inflight, sessions>>

\* reload_settings() after the SECRET_KEY environment variable was set:
\* config.settings is rebound; security.SECRET_KEY was copied at import
ReloadSettings ==
    /\ \E secret \in Secrets : settings' = Settings(secret)
    /\ resp' = Idle
    /\ UNCHANGED <<users, now, SECRET_KEY, held, inflight, sessions>>

\* the is_active column of a stored row is written (the ORM attribute)
SetActive ==
    /\ \E i \in DOMAIN users, flag \in BOOLEAN :
          users' = [users EXCEPT ![i].is_active = flag]
    /\ resp' = Idle
    /\ UNCHANGED <<now, settings, SECRET_KEY, held, inflight, sessions>>

\* POST /auth/register
RegisterUser ==
    /\ \E username \in Usernames, email \in Emails, password \in Passwords :
          LET r == register_user(users, username, email, password) IN
          /\ Len(r.rows) <= MaxUsers
          /\ users' = r.rows
          /\ resp' = [op |-> "register_user", username |-> username,
                      email |-> email, password |-> password, out |-> r.out]
    /\ UNCHANGED <<now, settings, SECRET_KEY, held, inflight, sessions>>

\* authenticate_user that deactivates the account found when the password
\* does not verify
AuthenticateUser_locks_account ==
    \E identifier \in Identifiers, password \in Passwords :
    \E first \in FirstOf(QueryByIdentifier(users, identifier)) :
       /\ resp' = [op |-> "authenticate_user", identifier |-> identifier,
                   password |-> password, first |-> first,
                   out |-> [kind |-> "return",
                            result |-> authenticate_user(first, password)]]
       /\ users' = IF first # None /\ authenticate_user(first, password) = None
                   THEN [i \in DOMAIN users |->
                            IF users[i].id = The(first).id
                            THEN [users[i] EXCEPT !.is_active = FALSE]
                            ELSE users[i]]
                   ELSE users
       /\ UNCHANGED <<now, settings, SECRET_KEY, held, inflight, sessions>>

\* authenticate_user(db, identifier, password)
AuthenticateUser ==
    /\ \E identifier \in Identifiers, password \in Passwords :
       \E first \in FirstOf(QueryByIdentifier(users, identifier)) :
          resp' = [op |-> "authenticate_user", identifier |-> identifier,
                   password |-> password, first |-> first,
                   out |-> [kind |-> "return",
                            result |-> authenticate_user(first, password)]]
    /\ UNCHANGED <<users, now, settings, SECRET_KEY, held, inflight, sessions>>

\* POST /auth/login; the client keeps the token it is given
Login ==
    /\ \E identifier \in Identifiers, password \in Passwords :
       \E first \in FirstOf(QueryByIdentifier(users, identifier)) :
          LET out == login(first, password, SECRET_KEY, now) IN
          /\ resp' = [op |-> "login", identifier |-> identifier,
                      password |-> password, first |-> first, out |-> out]
          /\ held' = IF out.kind = "return"
                     THEN Some(Held(The(out.token), None, identifier, password,
                                    The(first).id))
                     ELSE held
    /\ UNCHANGED <<users, now, settings, SECRET_KEY, inflight, sessions>>

\* GET /auth/me with the token the client holds
Me ==
    /\ held # None
    /\ resp' = Call("me", The(held).token, FALSE,
                    me(The(held).token, users, SECRET_KEY, now))
    /\ UNCHANGED <<users, now, settings, SECRET_KEY, held, inflight, sessions>>

\* get_current_user(token, db) with any presented token
GetCurrentUser ==
    /\ \E call \in GuardCalls :
          resp' = Call("get_current_user", call[1], call[2],
                       get_current_user(call[1], users, SECRET_KEY, now, call[2]))
    /\ UNCHANGED <<users, now, settings, SECRET_KEY, held, inflight, sessions>>

\* verify_access_token(token) with any presented token
VerifyAccessToken ==
    /\ \E call \in GuardCalls :
          resp' = Call("verify_access_token", call[1], call[2],
                       verify_access_token(call[1], SECRET_KEY, now, call[2]))
    /\ UNCHANGED <<users, now, settings, SECRET_KEY, held, inflight, sessions>>

\* create_access_token(data, expires_delta); the client keeps the token
CreateAccessToken ==
    /\ \E data \in IssuedClaims, ttl \in TtlSamples, fault \in BOOLEAN :
          LET out == create_access_token(data, ttl, SECRET_KEY, now, fault) IN
          /\ resp' = [op |-> "create_access_token", data |-> data, ttl |-> ttl,
                      fault |-> fault, out |-> out]
          /\ held' = IF out.raised = "none"
                     THEN Some(Held(The(out.token), ttl, "", PyNone, 0))
                     ELSE held
    /\ UNCHANGED <<users, now, settings, SECRET_KEY, inflight, sessions>>

\* decode_access_token(token) with a token derived from the held one
DecodeAccessToken ==
    /\ \E token \in DerivedTokens, fault \in BOOLEAN :
          resp' = Call("decode_access_token", token, fault,
                       decode_access_token(token, SECRET_KEY, now, fault))
    /\ UNCHANGED <<users, now, settings, SECRET_KEY, held, inflight, sessions>>

\* registration, login and the protected route, end to end
Next ==
    \/ RegisterUser
    \/ Login
    \/ Me
    \/ AuthenticateUser
    \/ SetActive
    \/ Tick

Spec == Init /\ [][Next]_vars

\* the session guard against stores that registration and deactivation
\* produce
GuardStore1 == register_user(<<>>, "alice", "a@x.com", Secret123).rows
GuardStore2 == register_user(GuardStore1, "a@x.com", "b@x.com", Other456).rows

InitGuard ==
    /\ users \in {<<>>, GuardStore1, GuardStore2}
    /\ now = 0
    /\ settings = Settings(DefaultSecret)
    /\ SECRET_KEY = settings.SECRET_KEY
    /\ held = None
    /\ resp = Idle
    /\ inflight = [r \in 1..MaxRequests |-> NoRequest]
    /\ sessions = [g \in 1..MaxSessions |-> NoSession]

NextGuard ==
    \/ GetCurrentUser
    \/ VerifyAccessToken
    \/ SetActive
    \/ Tick

SpecGuard == InitGuard /\ [][NextGuard]_vars

\* the two operations that only look accounts up, against stores that
\* change between the calls
NextLookup ==
    \/ GetCurrentUser
    \/ AuthenticateUser
    \/ SetActive
    \/ Tick

SpecLookup == InitGuard /\ [][NextLookup]_vars

\* get_session(): a new session with closed False, or RuntimeError when
\* the session factory fails
get_session(fault) ==
    IF fault
    THEN [raised |-> "RuntimeError",
          session |-> [state |-> "failed", closed |-> FALSE, close_calls |-> 0]]
    ELSE [raised |-> "none",
          session |-> [state |-> "yielded", closed |-> FALSE, close_calls |-> 0]]

\* the ways a generator suspended at its yield is continued: next(gen),
\* gen.throw(exc) when the consumer raised, gen.close() when it is
\* finalised
Resumptions == {"next", "throw", "close"}

\* get_db with the close after the yield and no try/finally around it
get_db_after_yield_no_finally(session, how) ==
    IF how = "next"
    THEN [raised |-> "StopIteration",
          session |-> [state |-> "finished", closed |-> TRUE,
                       close_calls |-> session.close_calls + 1]]
    ELSE [raised |-> IF how = "throw" THEN "ConsumerError" ELSE "none",
          session |-> [session EXCEPT !.state = "finished"]]

\* get_db from its yield on: the finally block runs db.close() and sets
\* db.closed however the generator is continued; then the generator ends
\* (StopIteration), lets the consumer's exception through, or returns from
\* close()
get_db_after_yield(session, how) ==
    [raised |-> CASE how = "next" -> "StopIteration"
                  [] how = "throw" -> "ConsumerError"
                  [] OTHER -> "none",
     session |-> [state |-> "finished", closed |-> TRUE,
                  close_calls |-> session.close_calls + 1]]

\* gen = get_db(); db = next(gen)
GetDbYield ==
    /\ \E g \in DOMAIN sessions, fault \in BOOLEAN :
          LET r == get_session(fault) IN
          /\ sessions[g].state = "none"
          /\ sessions' = [sessions EXCEPT ![g] = r.session]
          /\ resp' = [op |-> "get_db", gen |-> g, step |-> "start",
                      raised |-> r.raised]
    /\ UNCHANGED <<users, now, settings, SECRET_KEY, held, inflight>>

\* the generator is continued from its yield
GetDbResume ==
    /\ \E g \in DOMAIN sessions, how \in Resumptions :
          LET r == get_db_after_yield(sessions[g], how) IN
          /\ sessions[g].state = "yielded"
          /\ sessions' = [sessions EXCEPT ![g] = r.session]
          /\ resp' = [op |-> "get_db", gen |-> g, step |-> how,
                      raised |-> r.raised]
    /\ UNCHANGED <<users, now, settings, SECRET_KEY, held, inflight>>

\* the session dependency, several requests in progress
NextDb ==
    \/ GetDbYield
    \/ GetDbResume

SpecDb == Init /\ [][NextDb]_vars

\* the token codec alone
NextCodec ==
    \/ CreateAccessToken
    \/ DecodeAccessToken
    \/ ReloadSettings
    \/ Tick

SpecCodec == Init /\ [][NextCodec]_vars

\* a password longer than bcrypt reads, ending in c
LongPassword(c) == Str([i \in 1..BcryptMaxBytes |-> "x"] \o <<c>>)

\* values given to hash_password and as verify_password's plaintext: no
\* str, the empty and blank strs, short strs, a str with a NUL, two strs
\* alike in their first 72 bytes, and a password of the routes
HasherInputs ==
    {PyNone, PyInt, Str(<<>>), Str(<<" ">>), Str(<<"\t", " ">>),
     Str(<<"a">>), Str(<<"b">>), Str(<<" ", "a">>), Str(<<"a", NUL>>),
     LongPassword("a"), LongPassword("b"), Secret123}

\* values given as verify_password's digest: the above (among them text
\* that is no bcrypt digest) and the digests hash_password returns
HashedInputs ==
    HasherInputs \cup UNION {hash_password(p).digest : p \in HasherInputs}

\* hash_password(password)
HashPassword ==
    /\ \E password \in HasherInputs :
          resp' = [op |-> "hash_password", password |-> password,
                   out |-> hash_password(password)]
    /\ UNCHANGED <<users, now, settings, SECRET_KEY, held, inflight, sessions>>

\* verify_password(plain, hashed)
VerifyPassword ==
    /\ \E plain \in HasherInputs, hashed \in HashedInputs :
          resp' = [op |-> "verify_password", plain |-> plain, hashed |-> hashed,
                   out |-> verify_password(plain, hashed)]
    /\ UNCHANGED <<users, now, settings, SECRET_KEY, held, inflight, sessions>>

\* the credential hasher alone
NextHasher ==
    \/ HashPassword
    \/ VerifyPassword

SpecHasher == Init /\ [][NextHasher]_vars

\* names that are in no synonym set
UnknownNames ==
    {<<"x", "y", "z">>,
     <<"u", "n", "k", "n", "o", "w", "n">>,
     <<"p", "o", "w", "e", "r">>,
     <<"a", "d">>,
     <<"a", "d", "d", "s">>,
     <<"a", " ", "d", "d">>,
     <<"m", "o", "d", "u", "l", "o">>}

\* whitespace put around a name
Pads == {<<>>, <<" ", " ">>, <<"\t">>}

\* s.capitalize()-like spelling: the first letter in upper case
Capitalised(s) == IF s = <<>> THEN s ELSE <<UpperChar(s[1])>> \o Tail(s)

\* names given to the factory: every synonym, unknown names and the empty
\* name, in lower, upper and mixed case, with and without padding
OpNames ==
    {l \o w \o r :
        l \in Pads, r \in Pads,
        w \in UNION {{n, Upper(n), Capitalised(n)} :
                        n \in DOMAIN OPERATIONS \cup UnknownNames \cup {<<>>}}}

MaxOperand == 3

\* operands: the whole numbers and halves up to MaxOperand, and the
\* operands of test_divide_operation_compute
Operands ==
    {Rat(n, d) : n \in (0 - MaxOperand)..MaxOperand, d \in 1..2}
        \cup {Rat(20, 1), Rat(5, 1)}

\* CalculationFactory.create(op_type)
FactoryCreate ==
    /\ \E op_type \in OpNames :
          resp' = [op |-> "create", op_type |-> op_type,
                   out |-> CalculationFactory_create(op_type)]
    /\ UNCHANGED <<users, now, settings, SECRET_KEY, held, inflight, sessions>>

\* operation.compute(a, b) on a handler the factory returns
HandlerCompute ==
    /\ \E handler \in Range(OPERATIONS), a \in Operands, b \in Operands :
          resp' = [op |-> "compute", handler |-> handler, a |-> a, b |-> b,
                   out |-> compute(handler, a, b)]
    /\ UNCHANGED <<users, now, settings, SECRET_KEY, held, inflight, sessions>>

\* payload.type of the endpoint: the four names of the interface, a
\* padded synonym in upper case, an unknown name and the empty name
EndpointTypes ==
    {<<"a", "d", "d">>, <<"s", "u", "b", "t", "r", "a", "c", "t">>,
     <<"m", "u", "l", "t", "i", "p", "l", "y">>, <<"d", "i", "v", "i", "d", "e">>,
     <<" ", " ", "D", "I", "V", " ", " ">>,
     <<"p", "o", "w", "e", "r">>, <<>>}

\* payload.a and payload.b of the endpoint
EndpointOperands ==
    {Rat(n, d) : n \in {0, 1, 0 - MaxOperand}, d \in 1..2}
        \cup {Rat(20, 1), Rat(4, 1)}

\* POST /calc/compute
ComputeCalculation ==
    /\ \E type \in EndpointTypes, a \in EndpointOperands, b \in EndpointOperands :
          resp' = [op |-> "compute_calculation", type |-> type, a |-> a, b |-> b,
                   out |-> compute_calculation(type, a, b)]
    /\ UNCHANGED <<users, now, settings, SECRET_KEY, held, inflight, sessions>>

\* a registration request as the route sees it while handling it
Request(pc, username, email, password, out) ==
    [pc |-> pc, username |-> username, email |-> email, password |-> password,
     out |-> out]

\* POST /auth/register arrives
ReceiveRegister ==
    /\ \E r \in DOMAIN inflight, username \in Usernames, email \in Emails,
          password \in Passwords :
          /\ inflight[r].pc = "none"
          /\ inflight' = [inflight EXCEPT ![r] =
                Request("received", username, email, password, RouteRaise(0, ""))]
    /\ resp' = Idle
    /\ UNCHANGED <<users, now, settings, SECRET_KEY, held, sessions>>

\* register_user: the query on the username
RegisterCheckUsername ==
    /\ \E r \in DOMAIN inflight :
          LET q == inflight[r] IN
          /\ q.pc = "received"
          /\ inflight' = [inflight EXCEPT ![r] =
                IF QueryByUsername(users, q.username) # {}
                THEN [q EXCEPT !.pc = "done",
                               !.out = RouteRaise(400, "Username already exists")]
                ELSE [q EXCEPT !.pc = "username_free"]]
    /\ resp' = Idle
    /\ UNCHANGED <<users, now, settings, SECRET_KEY, held, sessions>>

\* register_user: the query on the e-mail address
RegisterCheckEmail ==
    /\ \E r \in DOMAIN inflight :
          LET q == inflight[r] IN
          /\ q.pc = "username_free"
          /\ inflight' = [inflight EXCEPT ![r] =
                IF QueryByEmail(users, q.email) # {}
                THEN [q EXCEPT !.pc = "done",
                               !.out = RouteRaise(400, "Email already registered")]
                ELSE [q EXCEPT !.pc = "email_free"]]
    /\ resp' = Idle
    /\ UNCHANGED <<users, now, settings, SECRET_KEY, held, sessions>>

\* register_user: the User is built, added and committed, and the answer
\* returned
RegisterCommit ==
    /\ \E r \in DOMAIN inflight :
          LET q == inflight[r]
              user == User(Len(users) + 1, q.username, q.email,
                           The(hash_password(q.password).digest))
              c == db_commit(users, user)
          IN /\ q.pc = "email_free"
             /\ users' = c.rows
             /\ inflight' = [inflight EXCEPT ![r] =
                   IF c.raised # "none"
                   THEN [q EXCEPT !.pc = "done", !.out = RouteEscapes(c.raised)]
                   ELSE [q EXCEPT !.pc = "done",
                                  !.out = RouteReturn(Some(to_read_schema(user)), None)]]
    /\ resp' = Idle
    /\ UNCHANGED <<now, settings, SECRET_KEY, held, sessions>>

\* registrations handled at the same time, each query and the commit a
\* step of its own
NextRace ==
    \/ ReceiveRegister
    \/ RegisterCheckUsername
    \/ RegisterCheckEmail
    \/ RegisterCommit

SpecRace == Init /\ [][NextRace]_vars

\* the operation dispatcher alone
NextCalc ==
    \/ FactoryCreate
    \/ HandlerCompute
    \/ ComputeCalculation

SpecCalc == Init /\ [][NextCalc]_vars

----------------------------------------------------------------------------
(* Properties of the session guard, checked under SpecGuard.               *)

\* the guard was called and the decoder worked
GuardCalled == resp.op = "get_current_user" /\ ~resp.fault

\* the presented token passes signature and expiry verification now
PassesVerification(token) ==
    /\ token.kind = "jwt"
    /\ token.alg = ALGORITHM
    /\ token.sig = Sign(ALGORITHM, token.payload, SECRET_KEY)
    /\ now < token.payload.exp * TicksPerSecond

\* the subject is the decimal form of the id of row i
Names(sub, i) == IsDecimal(sub) /\ IntOf(sub) = users[i].id

\* C1: whenever get_current_user returns an account, the presented token
\* is signed with the codec's secret and algorithm, its expiry lies in the
\* future, its subject is present, non-empty and names the id of a stored
\* account, and the account returned is that account.
C1_AcceptedTokenIsValid ==
    (resp.op = "get_current_user" /\ resp.out.kind = "return") =>
        /\ ~resp.fault
        /\ PassesVerification(resp.token)
        /\ resp.token.payload.has_sub
        /\ resp.token.payload.sub # <<>>
        /\ \E i \in DOMAIN users :
              /\ Names(resp.token.payload.sub, i)
              /\ resp.out.user = Some(users[i])

\* the second of two accounts is resolved from its token
C1_Witness ==
    /\ resp.op = "get_current_user"
    /\ resp.out.kind = "return"
    /\ Len(users) = 2
    /\ resp.out.user = Some(users[2])

\* C2: get_current_user never returns an account whose active flag is
\* false, even for a validly signed, unexpired token naming it.
C2_OnlyActiveAccounts ==
    (resp.op = "get_current_user" /\ resp.out.kind = "return") =>
        \A u \in resp.out.user : u.is_active

\* C3: an empty or absent token fails with 401 and a reason that differs
\* from the one given when token verification fails, without decoding
\* and without an account lookup.
C3_MissingTokenReason ==
    (resp.op = "get_current_user" /\ resp.token.kind = "empty") =>
        /\ resp.out.kind = "HTTPException"
        /\ resp.out.status = 401
        /\ resp.out.detail #
              get_current_user(MalformedToken, users, SECRET_KEY, now, FALSE).detail
        /\ ~resp.out.decoded
        /\ resp.out.lookups = 0

\* C4: a non-empty token that the codec rejects as invalid or expired
\* makes get_current_user and verify_access_token fail with 401
\* "Invalid or expired token", and no account is looked up.
C4_RejectedTokenUnauthorized ==
    ( /\ resp.op \in {"get_current_user", "verify_access_token"}
      /\ ~resp.fault
      /\ resp.token.kind # "empty"
      /\ ~PassesVerification(resp.token) ) =>
        /\ resp.out.kind = "HTTPException"
        /\ resp.out.status = 401
        /\ resp.out.detail = "Invalid or expired token"
        /\ resp.out.lookups = 0

\* a correctly signed token of a stored account is refused once expired
C4_Witness ==
    /\ GuardCalled
    /\ resp.token.sig = Sign(ALGORITHM, resp.token.payload, SECRET_KEY)
    /\ resp.token.payload.exp * TicksPerSecond <= now
    /\ \E i \in DOMAIN users : Names(resp.token.payload.sub, i)
    /\ resp.out.status = 401

C6_UnknownSubject ==
    ( /\ GuardCalled
      /\ PassesVerification(resp.token)
      /\ resp.token.payload.has_sub
      /\ resp.token.payload.sub # <<>>
      /\ ~\E i \in DOMAIN users : Names(resp.token.payload.sub, i) ) =>
        /\ resp.out.kind = "HTTPException"
        /\ resp.out.status = 401
        /\ resp.out.detail = "User not found"

----------------------------------------------------------------------------
(* Properties of the authenticator and the routes, checked under Spec.     *)

\* a stored account that the identifier matches and whose digest verifies
\* the password
Matching(identifier, password) ==
    {u \in Range(users) :
        /\ u.username = identifier \/ u.email = identifier
        /\ verify_password(password, u.password_hash).result}

\* C7: authenticate_user returns an account exactly when some stored
\* account has the identifier as its username or e-mail and a digest that
\* verifies the password; otherwise it returns None; it never raises.
C7_AuthenticateIff ==
    (resp.op = "authenticate_user") =>
        /\ resp.out.kind = "return"
        /\ (resp.out.result # None)
              <=> (Matching(resp.identifier, resp.password) # {})
        /\ resp.out.result \subseteq Matching(resp.identifier, resp.password)

\* C8: once an account is registered with username u, e-mail e and
\* password p, login with (u, p) and with (e, p) returns a bearer token,
\* and the protected route, given that token while it is fresh, resolves
\* to exactly that account.
C8_RegisterLoginMe ==
    /\ (resp.op = "login" /\ Matching(resp.identifier, resp.password) # {}) =>
          /\ resp.out.kind = "return"
          /\ resp.out.token # None
          /\ \A h \in held :
                /\ h.token = The(resp.out.token)
                /\ \E u \in Matching(resp.identifier, resp.password) :
                      h.account = u.id
    /\ (resp.op = "me" /\ now < resp.token.payload.exp * TicksPerSecond) =>
          /\ resp.out.kind = "return"
          /\ \A h \in held :
                resp.out.user = Some(to_read_schema(users[h.account]))

----------------------------------------------------------------------------
(* Properties of the token codec, checked under SpecCodec.                 *)

DecodeCalled == resp.op = "decode_access_token" /\ ~resp.fault

InvalidOrExpired == DecodeRaise("Invalid or expired token")

\* decode_access_token refuses the token at time t for being expired
RefusedAsExpired(token, t) ==
    /\ token.sig = Sign(ALGORITHM, token.payload, SECRET_KEY)
    /\ token.payload.exp * TicksPerSecond <= t
    /\ decode_access_token(token, SECRET_KEY, t, FALSE) = InvalidOrExpired

\* C9: decode_access_token accepts a correctly signed token only before
\* its expiry; a token issued with a ttl of -1 second is refused as
\* "Invalid or expired token"; and a token refused as expired is refused
\* as expired at every later time.
C9_ExpiryIsFinal ==
    /\ [](DecodeCalled =>
            /\ (resp.out.raised = "none" =>
                    now < resp.token.payload.exp * TicksPerSecond)
            /\ \A h \in held :
                  (resp.token = h.token /\ h.ttl = Some(0 - TicksPerSecond)) =>
                      resp.out = InvalidOrExpired)
    /\ [][\A token \in DerivedTokens :
              RefusedAsExpired(token, now) => RefusedAsExpired(token, now')]_vars

\* a token issued with a ttl of -1 second is decoded and refused
C9_Witness ==
    /\ DecodeCalled
    /\ \E h \in held : resp.token = h.token /\ h.ttl = Some(0 - TicksPerSecond)
    /\ resp.out = InvalidOrExpired

\* the token fails verification for its form, algorithm or signature
BadSignature(token) ==
    \/ token.kind # "jwt"
    \/ token.alg # ALGORITHM
    \/ token.sig # Sign(ALGORITHM, token.payload, SECRET_KEY)

\* C10: a malformed or wrongly signed token fails decode_access_token
\* with the same error type and message as an expired token.
C10_SameFailure ==
    /\ (DecodeCalled /\ BadSignature(resp.token)) => resp.out = InvalidOrExpired
    /\ \A bad \in DerivedTokens, late \in DerivedTokens :
          (BadSignature(bad) /\ RefusedAsExpired(late, now)) =>
              decode_access_token(bad, SECRET_KEY, now, FALSE)
                  = decode_access_token(late, SECRET_KEY, now, FALSE)

\* the held token has expired, and its copy with bytes appended is refused
C10_Witness ==
    /\ DecodeCalled
    /\ \E h \in held :
          /\ resp.token = Tamper(h.token)
          /\ RefusedAsExpired(h.token, now)
    /\ resp.out.raised = "RuntimeError"

\* the held token was issued at this instant with a ttl above zero and a
\* subject among its claims
IssuedJustNow(h) ==
    /\ h.at = now
    /\ \E ttl \in h.ttl : ttl > 0
    /\ h.token.payload.has_sub

\* C11: for every claims mapping with a subject and every ttl above zero,
\* create_access_token keeps the subject, and decode_access_token applied
\* to the token at the instant of issuance succeeds and returns that
\* subject.
C11_RoundTrip ==
    /\ (resp.op = "create_access_token" /\ ~resp.fault /\ resp.data.has_sub) =>
          /\ resp.out.raised = "none"
          /\ \A token \in resp.out.token :
                token.payload.has_sub /\ token.payload.sub = resp.data.sub
    /\ \A h \in held :
          (DecodeCalled /\ resp.token = h.token /\ IssuedJustNow(h)) =>
              /\ resp.out.raised = "none"
              /\ resp.out.payload.has_sub
              /\ resp.out.payload.sub = h.token.payload.sub


\* the token carries a signature made under a secret other than the one
\* the configuration holds now
SignedUnderOldSecret(token) ==
    /\ token.kind = "jwt"
    /\ token.sig = Sign(token.alg, token.payload, token.sig.key)
    /\ token.sig.key # settings.SECRET_KEY

\* C12: once reload_settings has put a different SECRET_KEY in the
\* configuration, decode_access_token and get_current_user reject every
\* token signed under the old secret.
C12_RotationRevokes ==
    /\ (DecodeCalled /\ SignedUnderOldSecret(resp.token)) =>
          resp.out.raised = "RuntimeError"
    /\ \A h \in held :
          SignedUnderOldSecret(h.token) =>
              get_current_user(h.token, users, SECRET_KEY, now, FALSE).detail
                  = "Invalid or expired token"

DecodeFailure == DecodeRaise("Token decode failure")

C14_CreateFailure ==
    (resp.op = "create_access_token") =>
        /\ resp.fault => resp.out = CreateRaise("RuntimeError", "JWT creation failed")
        /\ ~resp.fault =>
              /\ resp.out.raised = "none"
              /\ resp.out.token # None
              /\ \A token \in resp.out.token :
                    token = JwtEncode(token.payload, SECRET_KEY, ALGORITHM)

\* the signer fails while the client still holds an earlier token
C14_Witness ==
    /\ resp.op = "create_access_token"
    /\ resp.fault
    /\ resp.out.raised = "RuntimeError"
    /\ resp.out.msg = "JWT creation failed"
    /\ held # None

----------------------------------------------------------------------------
(* Properties of the credential hasher, checked under SpecHasher.          *)

NonEmptyStr(v) == v.type = "str" /\ v.bcrypt = None /\ v.chars # <<>>

\* C16: for all non-empty strings p and q, with the digest that
\* hash_password(q) returns, verify_password(p, digest) is true exactly
\* when p = q.
C16_VerifyIffEqual ==
    (resp.op = "verify_password" /\ NonEmptyStr(resp.plain)) =>
        \A q \in HasherInputs :
            (NonEmptyStr(q) /\ hash_password(q).digest = Some(resp.hashed)) =>
                (resp.out = VerifyReturn(resp.plain = q))

\* C17: verify_password never raises; it returns False when an argument
\* is no string, when an argument is the empty string, when the digest is
\* no bcrypt digest, and when the comparison itself fails.
C17_VerifyNeverRaises ==
    (resp.op = "verify_password") =>
        /\ resp.out.raised = "none"
        /\ resp.out.result \in BOOLEAN
        /\ ( \/ resp.plain.type # "str"
             \/ resp.hashed.type # "str"
             \/ resp.plain = Str(<<>>)
             \/ resp.hashed = Str(<<>>)
             \/ resp.hashed.bcrypt = None
             \/ PwdContextVerify(resp.plain.chars, resp.hashed).raised # "none" ) =>
              resp.out = VerifyReturn(FALSE)

\* a password is compared with a string that is no digest
C17_Witness ==
    /\ resp.op = "verify_password"
    /\ resp.plain = Secret123
    /\ resp.hashed.type = "str"
    /\ resp.hashed.bcrypt = None
    /\ resp.hashed.chars # <<>>
    /\ resp.out = VerifyReturn(FALSE)

----------------------------------------------------------------------------
(* Properties of registration, checked under Spec.                         *)

\* no two rows share a username, and no two share an e-mail address
UniqueAccounts ==
    \A i \in DOMAIN users, j \in DOMAIN users :
        (i # j) => /\ users[i].username # users[j].username
                   /\ users[i].email # users[j].email

\* C18: after any sequence of register_user calls no two stored accounts
\* share a username or an e-mail address; a registration whose username
\* or e-mail address is taken is answered 400 "Username already exists" /
\* "Email already registered" and leaves the stored accounts as they were,
\* and any other registration is stored.
C18_UniqueUsernameEmail ==
    /\ []UniqueAccounts
    /\ [][(resp'.op = "register_user") =>
            IF QueryByUsername(users, resp'.username) # {}
            THEN /\ resp'.out = RouteRaise(400, "Username already exists")
                 /\ users' = users
            ELSE IF QueryByEmail(users, resp'.email) # {}
            THEN /\ resp'.out = RouteRaise(400, "Email already registered")
                 /\ users' = users
            ELSE /\ resp'.out.status = 200
                 /\ Len(users') = Len(users) + 1
                 /\ SubSeq(users', 1, Len(users)) = users
                 /\ users'[Len(users')].username = resp'.username
                 /\ users'[Len(users')].email = resp'.email]_vars

\* a new username with a taken e-mail address is turned away
C18_Witness ==
    /\ resp.op = "register_user"
    /\ resp.out = RouteRaise(400, "Email already registered")
    /\ Len(users) = 1
    /\ users[1].username # resp.username

----------------------------------------------------------------------------
(* Properties of the operation dispatcher, checked under SpecCalc.         *)

\* the name without surrounding whitespace, in lower case
Normalised(name) == Lower(Strip(name))

\* the synonyms the factory lists for the class named handler
SynonymsOf(handler) == {k \in DOMAIN OPERATIONS : OPERATIONS[k] = handler}

\* C19: CalculationFactory.create returns a handler of operation X exactly
\* when the name, trimmed and lower-cased, is one of X's synonyms, and
\* fails with ValueError("Unsupported calculation type") when it is in no
\* synonym set (the empty and the blank name among them).
C19_FactoryResolves ==
    (resp.op = "create") =>
        /\ \A handler \in Range(OPERATIONS) :
              (resp.out = CreateReturn(handler))
                  <=> (Normalised(resp.op_type) \in SynonymsOf(handler))
        /\ (resp.out = CreateFail("ValueError", "Unsupported calculation type"))
              <=> (\A handler \in Range(OPERATIONS) :
                      Normalised(resp.op_type) \notin SynonymsOf(handler))
        /\ SynonymsOf("AddOperation") =
              {<<"a", "d", "d">>, <<"p", "l", "u", "s">>,
               <<"a", "d", "d", "i", "t", "i", "o", "n">>}
        /\ Strip(resp.op_type) = <<>> => resp.out.raised = "ValueError"

\* "  ADD  " resolves to the addition handler
C19_Witness ==
    /\ resp.op = "create"
    /\ resp.op_type = <<" ", " ", "A", "D", "D", " ", " ">>
    /\ resp.out = CreateReturn("AddOperation")

\* C20: the divide handler fails with ValueError("Division by zero")
\* exactly when b is zero and otherwise returns the quotient a / b
\* (compute(20, 5) = 4); the add, subtract and multiply handlers never
\* fail and return a + b, a - b and a * b.
C20_HandlersCompute ==
    (resp.op = "compute") =>
        LET a == resp.a
            b == resp.b
            whole == a.den = 1 /\ b.den = 1
        IN /\ (resp.out.raised # "none") <=>
                  (resp.handler = "DivideOperation" /\ b = Rat(0, 1))
           /\ (resp.out.raised # "none") =>
                  resp.out = ComputeRaise("ValueError", "Division by zero")
           /\ \A v \in resp.out.value :
                 /\ v = Rat(v.num, v.den)
                 /\ resp.handler = "DivideOperation" =>
                       /\ v.num * b.num * a.den = a.num * v.den * b.den
                       /\ (a = Rat(20, 1) /\ b = Rat(5, 1)) => v = Rat(4, 1)
                 /\ resp.handler = "AddOperation" =>
                       /\ SubtractOperation_compute(v, b).value = Some(a)
                       /\ whole => v = Rat(a.num + b.num, 1)
                 /\ resp.handler = "SubtractOperation" =>
                       /\ AddOperation_compute(v, b).value = Some(a)
                       /\ whole => v = Rat(a.num - b.num, 1)
                 /\ resp.handler = "MultiplyOperation" =>
                       /\ v.num * a.den * b.den = a.num * b.num * v.den
                       /\ whole => v = Rat(a.num * b.num, 1)

\* a division whose quotient is no whole number
C20_Witness ==
    /\ resp.op = "compute"
    /\ resp.handler = "DivideOperation"
    /\ resp.a = Rat(3, 1)
    /\ resp.b = Rat(2, 1)
    /\ resp.out = ComputeReturn(Rat(3, 2))

\* C21: compute_calculation answers every dispatcher failure (a name in
\* no synonym set, a division by zero) with 400 and the error's message
\* as detail, and every supported operation whose computation does not
\* fail with 200 and the computed result.
C21_EndpointMapsFailures ==
    (resp.op = "compute_calculation") =>
        LET handlers == {h \in Range(OPERATIONS) :
                            Normalised(resp.type) \in SynonymsOf(h)}
        IN IF handlers = {}
           THEN resp.out = CalcResponse(400, "Unsupported calculation type", None)
           ELSE IF handlers = {"DivideOperation"} /\ resp.b = Rat(0, 1)
           THEN resp.out = CalcResponse(400, "Division by zero", None)
           ELSE /\ resp.out.status = 200
                /\ resp.out.detail = ""
                /\ \A h \in handlers :
                      resp.out.result = compute(h, resp.a, resp.b).value

\* "  DIV  " with a zero divisor is answered 400 "Division by zero"
C21_Witness ==
    /\ resp.op = "compute_calculation"
    /\ Strip(resp.type) # resp.type
    /\ resp.b = Rat(0, 1)
    /\ resp.out = CalcResponse(400, "Division by zero", None)

----------------------------------------------------------------------------
(* Further properties of the session guard, checked under SpecGuard.       *)

\* the details of the guard's 401 answers
GuardDetails ==
    {"Invalid or expired token", "Missing user id in token", "User not found"}

\* C22: for every token, get_current_user ends either with the resolved
\* account or with one of its 401 answers, and no other error leaves it;
\* this holds also for a verified token whose subject is a non-empty
\* string that is no decimal integer.
C22_FiveOutcomes ==
    (resp.op = "get_current_user") =>
        \/ /\ resp.out.kind = "return"
           /\ resp.out.user # None
        \/ /\ resp.out.kind = "HTTPException"
           /\ resp.out.status = 401
           /\ resp.out.detail \in GuardDetails

\* the call reached decode_access_token, which failed with the internal
\* "Token decode failure" condition
DecodeFailedInternally ==
    /\ resp.op \in {"get_current_user", "verify_access_token"}
    /\ resp.out.decoded
    /\ decode_access_token(resp.token, SECRET_KEY, now, resp.fault) = DecodeFailure

\* C23: when decode_access_token fails with "Token decode failure",
\* get_current_user and verify_access_token do not answer with the
\* ordinary 401 "Invalid or expired token".
C23_InternalFailureKeptApart ==
    DecodeFailedInternally =>
        ~( /\ resp.out.kind = "HTTPException"
           /\ resp.out.status = 401
           /\ resp.out.detail = "Invalid or expired token" )

----------------------------------------------------------------------------
(* Further properties of the token codec, checked under SpecCodec.         *)

\* C24: for every ttl given to create_access_token, a zero and a negative
\* one included, the expiry in the token is the time of issuance plus that
\* ttl (in the whole seconds a token carries); the default lifetime is
\* used only when no ttl is given.
C24_ExpiryIsNowPlusTtl ==
    (resp.op = "create_access_token" /\ ~resp.fault) =>
        \A token \in resp.out.token :
            IF resp.ttl = None
            THEN token.payload.exp = ExpOf(now + DefaultTtl)
            ELSE token.payload.exp = ExpOf(now + The(resp.ttl))

\* C25 as stated: every token create_access_token returns carries a
\* subject claim, so no issued token decodes to claims without a subject.
C25_SubjectAlwaysPresent ==
    /\ (resp.op = "create_access_token") =>
          \A token \in resp.out.token : token.payload.has_sub
    /\ \A h \in held :
          LET d == decode_access_token(h.token, SECRET_KEY, h.at, FALSE)
          IN d.raised = "none" => d.payload.has_sub

\* C25, amended: create_access_token carries the claims over as they are
\* given: the token has a subject exactly when the mapping has one, and
\* then the same subject; none is supplied, so a mapping without a subject
\* gives a token that decodes to claims without a subject.
C25_SubjectCarriedOver ==
    (resp.op = "create_access_token" /\ ~resp.fault) =>
        /\ resp.out.token # None
        /\ \A token \in resp.out.token :
              /\ token.payload.has_sub = resp.data.has_sub
              /\ token.payload.sub = resp.data.sub
              /\ LET d == decode_access_token(token, SECRET_KEY, now, FALSE)
                 IN d.raised = "none" =>
                       /\ d.payload.has_sub = resp.data.has_sub
                       /\ d.payload.sub = resp.data.sub

\* a mapping without a subject is given and a token without one returned
C25_Witness ==
    /\ resp.op = "create_access_token"
    /\ ~resp.data.has_sub
    /\ \E token \in resp.out.token :
          /\ ~token.payload.has_sub
          /\ decode_access_token(token, SECRET_KEY, now, FALSE).raised = "none"

----------------------------------------------------------------------------
(* Further properties of the authenticator and the routes, checked under   *)
(* Spec.                                                                   *)

\* the identifier is the username of one stored account and the e-mail
\* address of another
Ambiguous(identifier) ==
    \E i \in DOMAIN users, j \in DOMAIN users :
        /\ i # j
        /\ users[i].username = identifier
        /\ users[j].email = identifier

\* C26: when the identifier is one account's username and another's
\* e-mail address and one of the two has a digest that verifies the
\* password, authenticate_user returns that account and login answers
\* with a token for it, whichever row the lookup gives first.
C26_OrderIndependent ==
    ( /\ resp.op \in {"authenticate_user", "login"}
      /\ Ambiguous(resp.identifier)
      /\ Matching(resp.identifier, resp.password) # {} ) =>
        /\ resp.op = "authenticate_user" =>
              /\ resp.out.result # None
              /\ resp.out.result \subseteq Matching(resp.identifier, resp.password)
        /\ resp.op = "login" =>
              /\ resp.out.status = 200
              /\ \A token \in resp.out.token :
                    \E u \in Matching(resp.identifier, resp.password) :
                        token.payload.sub = StrOf(u.id)

----------------------------------------------------------------------------
(* Properties of registrations handled at the same time, checked under     *)
(* SpecRace.                                                               *)

\* both requests were answered and ask for the same username or the same
\* e-mail address
Clash(r1, r2) ==
    /\ r1 # r2
    /\ inflight[r1].pc = "done"
    /\ inflight[r2].pc = "done"
    /\ \/ inflight[r1].username = inflight[r2].username
       \/ inflight[r1].email = inflight[r2].email

AlreadyExists ==
    {RouteRaise(400, "Username already exists"),
     RouteRaise(400, "Email already registered")}

\* C27: when two registrations with the same username or the same e-mail
\* address are handled at the same time, whatever the order of their
\* steps, one account is created and the other request is answered 400
\* "already exists"; no storage error reaches the caller.
C27_RaceIsTranslated ==
    /\ UniqueAccounts
    /\ \A r1 \in DOMAIN inflight, r2 \in DOMAIN inflight :
          Clash(r1, r2) =>
              \/ inflight[r1].out.status = 200 /\ inflight[r2].out \in AlreadyExists
              \/ inflight[r2].out.status = 200 /\ inflight[r1].out \in AlreadyExists

\* the credentials of the last call are wrong: the identifier matched no
\* account, or the password does not verify against the account found
WrongCredentials ==
    \/ resp.first = None
    \/ ~verify_password(resp.password, The(resp.first).password_hash).result

\* C28: wrong credentials give no oracle: whether the identifier matches
\* no account or the password does not verify against the account found,
\* authenticate_user returns None and login answers 401 "Invalid username
\* or password", the same response in both cases.
C28_NoOracle ==
    /\ resp.op = "authenticate_user" =>
          (WrongCredentials =>
              resp.out = [kind |-> "return", result |-> None])
    /\ resp.op = "login" =>
          (WrongCredentials =>
              /\ resp.out = RouteRaise(401, "Invalid username or password")
              /\ resp.out = login(None, resp.password, SECRET_KEY, now))

\* login refused a password that does not verify against an account the
\* identifier matched
C28_Witness ==
    /\ resp.op = "login"
    /\ resp.first # None
    /\ ~verify_password(resp.password, The(resp.first).password_hash).result
    /\ resp.out.status = 401

----------------------------------------------------------------------------
(* Frame of the two lookups, checked under SpecLookup.                     *)

\* C29: get_current_user and authenticate_user leave the stored accounts
\* as they were in every outcome, and store nothing else: no token and no
\* session record is written by either call.
C29_LookupsWriteNothing ==
    [][(resp'.op \in {"get_current_user", "authenticate_user"}) =>
          /\ users' = users
          /\ held' = held
          /\ sessions' = sessions
          /\ inflight' = inflight]_vars

\* authenticate_user turned down a password for an account that is stored
C29_Witness ==
    /\ resp.op = "authenticate_user"
    /\ resp.first # None
    /\ resp.out.result = None
    /\ The(resp.first) \in {users[i] : i \in DOMAIN users}

----------------------------------------------------------------------------
(* Properties of the session dependency, checked under SpecDb.             *)

\* C30: a session handed out by get_db is open while it is yielded, and
\* once its generator has been resumed or finalised, also by an exception
\* of the consumer, close() has been called on it and its closed flag is
\* True: no session of a request that has ended is open.
C30_SessionLifecycle ==
    \A g \in DOMAIN sessions :
       /\ sessions[g].state = "yielded" =>
             ~sessions[g].closed /\ sessions[g].close_calls = 0
       /\ sessions[g].state = "finished" =>
             sessions[g].closed /\ sessions[g].close_calls = 1

\* the consumer of one session raised and its session is closed, while
\* another session is still yielded and open
C30_Witness ==
    /\ resp.op = "get_db"
    /\ resp.step = "throw"
    /\ resp.raised = "ConsumerError"
    /\ sessions[resp.gen].closed
    /\ \E g \in DOMAIN sessions :
          sessions[g].state = "yielded" /\ ~sessions[g].closed

====
